---------------------------- MODULE Spec2Model ----------------------------
(***************************************************************************)
(* Model of notify_kairi25.py: read_tickers, fetch_prices,                 *)
(* compute_sma25_signals, format_alerts and the control flow of main.      *)
(*                                                                         *)
(* Numbers.  A float column cell is a sequence: <<>> is NaN, <<v>> is the  *)
(* number v.  Prices are fixed-point hundredths (100.00 is 10000); every   *)
(* input close is a whole number of units, so a mean of 25 closes is an    *)
(* exact number of hundredths and the comparisons below are exact.         *)
(* kairi is kept as an exact fraction <<num, den>> and only rounded by the *)
(* formatter, as the code does.                                            *)
(***************************************************************************)
EXTENDS Integers, Sequences, FiniteSets, TLC

VARIABLES pc, args, file, data, tickers, raw, res, text, out, err, trace, status

vars == <<pc, args, file, data, tickers, raw, res, text, out, err, trace, status>>

-----------------------------------------------------------------------------
(* Bounds of the input families *)

MaxLines == 2
MaxRows == 26
TailLen == 2

-----------------------------------------------------------------------------
(* Generic helpers *)

NaN == <<>>

Num(v) == <<v>>

IsNull(x) == x = <<>>

Defined(x) == x # <<>>

Val(x) == x[1]

Max(a, b) == IF a >= b THEN a ELSE b

Min(a, b) == IF a <= b THEN a ELSE b

RECURSIVE Concat(_)
Concat(ss) == IF ss = <<>> THEN <<>> ELSE Head(ss) \o Concat(Tail(ss))

Last(s) == s[Len(s)]

Reverse(s) == [i \in 1..Len(s) |-> s[Len(s) + 1 - i]]

-----------------------------------------------------------------------------
(* Strings of the ticker file: a line is a sequence of characters *)

Ord(c) == CASE c = " " -> 32
            [] c = "#" -> 35
            [] c = "A" -> 65
            [] c = "B" -> 66

IsSpace(c) == c = " "

RECURSIVE LStrip(_)
LStrip(s) == IF s # <<>> /\ IsSpace(Head(s)) THEN LStrip(Tail(s)) ELSE s

RECURSIVE RStrip(_)
RStrip(s) == IF s # <<>> /\ IsSpace(Last(s)) THEN RStrip(SubSeq(s, 1, Len(s) - 1)) ELSE s

Strip(s) == RStrip(LStrip(s))

StartsWithHash(s) == s # <<>> /\ Head(s) = "#"

(* mutant of KeepLine: '#' lines are not ignored *)
KeepLineWithComments(line) == Strip(line) # <<>>

KeepLine(line) == Strip(line) # <<>> /\ ~StartsWithHash(Strip(line))

RECURSIVE read_tickers(_)
read_tickers(f) ==
    IF f = <<>> THEN <<>>
    ELSE (IF KeepLine(Head(f)) THEN <<Strip(Head(f))>> ELSE <<>>) \o read_tickers(Tail(f))

(* Python's str ordering: lexicographic by code point *)
RECURSIVE StrLess(_, _)
StrLess(a, b) ==
    IF b = <<>> THEN FALSE
    ELSE IF a = <<>> THEN TRUE
    ELSE IF Head(a) # Head(b) THEN Ord(Head(a)) < Ord(Head(b))
    ELSE StrLess(Tail(a), Tail(b))

RECURSIVE SortedKeys(_)
SortedKeys(S) ==
    IF S = {} THEN <<>>
    ELSE LET m == CHOOSE x \in S : \A y \in S \ {x} : StrLess(x, y)
         IN <<m>> \o SortedKeys(S \ {m})

-----------------------------------------------------------------------------
(* fetch_prices: normalisation of the downloaded frame *)

Grouped(d) == d.shape = "grouped"

HasKey(d, t) == Grouped(d) /\ t \in DOMAIN d.cols

(* df = data[t], or data.copy() when data[t] raises; then df[['Close']] *)
CloseColumn(d, t) == IF HasKey(d, t) THEN d.cols[t] ELSE d.flat

(* df[['Close']] on the fallback copy of a frame grouped by ticker: KeyError *)
FetchRaises(ts, d) == \E i \in 1..Len(ts) : Grouped(d) /\ ~HasKey(d, ts[i])

Frame(d, t) ==
    LET col == CloseColumn(d, t)
    IN [i \in 1..Len(d.index) |-> [Date |-> d.index[i], close |-> col[i], ticker |-> t]]

fetch_prices(ts, d) == Concat([i \in 1..Len(ts) |-> Frame(d, ts[i])])

-----------------------------------------------------------------------------
(* compute_sma25_signals *)

Window == 25

MinPeriods == 25

ThresholdNum == 8

ThresholdDen == 10

Group(df, t) == SelectSeq(df, LAMBDA r : r.ticker = t)

TickersOf(df) == {df[i].ticker : i \in 1..Len(df)}

DatesOf(g) == {g[i].Date : i \in 1..Len(g)}

MinDate(g) == CHOOSE d \in DatesOf(g) : \A e \in DatesOf(g) : d <= e

MaxDate(g) == CHOOSE d \in DatesOf(g) : \A e \in DatesOf(g) : d >= e

RowsOfDate(g, d) == SelectSeq(g, LAMBDA r : r.Date = d)

RemoveAt(s, i) == SubSeq(s, 1, i - 1) \o SubSeq(s, i + 1, Len(s))

RECURSIVE Perms(_)
Perms(s) ==
    IF Len(s) <= 1 THEN {s}
    ELSE UNION {{<<s[i]>> \o p : p \in Perms(RemoveAt(s, i))} : i \in 1..Len(s)}

(* g.sort_values('Date'): the default sort kind is not stable, so rows of one
   date may come out in any order; every such order is a possible result *)
RECURSIVE SortedFrom(_, _, _)
SortedFrom(g, d, hi) ==
    IF d > hi THEN {<<>>}
    ELSE {p \o q : p \in Perms(RowsOfDate(g, d)), q \in SortedFrom(g, d + 1, hi)}

SortValuesDate(g) == IF g = <<>> THEN {<<>>} ELSE SortedFrom(g, MinDate(g), MaxDate(g))

RECURSIVE SumObs(_, _, _)
SumObs(g, lo, hi) ==
    IF lo > hi THEN 0
    ELSE (IF IsNull(g[hi].close) THEN 0 ELSE Val(g[hi].close)) + SumObs(g, lo, hi - 1)

(* mutant of RollingMean: min_periods left at 1 *)
RollingMeanMinPeriods1(g, i) ==
    LET lo == Max(1, i - Window + 1)
        nobs == Cardinality({j \in lo..i : ~IsNull(g[j].close)})
    IN IF nobs >= 1 THEN Num(SumObs(g, lo, i) \div nobs) ELSE NaN

(* g['close'].rolling(25, min_periods=25).mean() at row i: the window is the
   last Window rows ending at i; NaN cells are not observations *)
RollingMean(g, i) ==
    LET lo == Max(1, i - Window + 1)
        nobs == Cardinality({j \in lo..i : ~IsNull(g[j].close)})
    IN IF nobs >= MinPeriods THEN Num(SumObs(g, lo, i) \div nobs) ELSE NaN

(* (close / sma25 - 1.0) * 100.0 as the fraction <<num, den>>; a zero sma25
   gives a non-finite float (den = 0), or NaN for 0/0 *)
Kairi(close, sma) ==
    IF IsNull(close) \/ IsNull(sma) THEN NaN
    ELSE IF Val(sma) = 0 /\ Val(close) = 0 THEN NaN
    ELSE <<100 * (Val(close) - Val(sma)), Val(sma)>>

(* mutant of Signal: the 0.8 factor is forgotten *)
SignalNoFactor(close, sma) ==
    ~IsNull(close) /\ ~IsNull(sma) /\ Val(close) < Val(sma)

(* close < sma25 * 0.8; a comparison with NaN is False *)
Signal(close, sma) ==
    /\ ~IsNull(close)
    /\ ~IsNull(sma)
    /\ ThresholdDen * Val(close) < ThresholdNum * Val(sma)

WithColumns(g) ==
    [i \in 1..Len(g) |->
        LET sma == RollingMean(g, i)
        IN [Date |-> g[i].Date, close |-> g[i].close, ticker |-> g[i].ticker,
            sma25 |-> sma, kairi |-> Kairi(g[i].close, sma),
            signal |-> Signal(g[i].close, sma)]]

(* pd.concat(out) with out empty raises ValueError *)
ComputeRaises(df) == TickersOf(df) = {}

RECURSIVE ConcatGroups(_, _)
ConcatGroups(df, keys) ==
    IF keys = <<>> THEN {<<>>}
    ELSE {WithColumns(g) \o rest :
            g \in SortValuesDate(Group(df, Head(keys))),
            rest \in ConcatGroups(df, Tail(keys))}

(* the set of frames compute_sma25_signals may return *)
compute_sma25_signals(df) == ConcatGroups(df, SortedKeys(TickersOf(df)))

-----------------------------------------------------------------------------
(* format_alerts *)

RECURSIVE StableFrom(_, _, _)
StableFrom(g, d, hi) ==
    IF d > hi THEN <<>> ELSE RowsOfDate(g, d) \o StableFrom(g, d + 1, hi)

StableByDate(g) == IF g = <<>> THEN <<>> ELSE StableFrom(g, MinDate(g), MaxDate(g))

(* mutant of SortTickerDate: the ticker column is sorted descending *)
SortTickerDateDescending(df) ==
    LET keys == Reverse(SortedKeys(TickersOf(df)))
    IN Concat([k \in 1..Len(keys) |-> StableByDate(Group(df, keys[k]))])

(* res.sort_values(['ticker', 'Date']): a sort on several columns is stable *)
SortTickerDate(df) ==
    LET keys == SortedKeys(TickersOf(df))
    IN Concat([k \in 1..Len(keys) |-> StableByDate(Group(df, keys[k]))])

RECURSIVE LastIndexFrom(_, _, _)
LastIndexFrom(df, t, i) == IF df[i].ticker = t THEN i ELSE LastIndexFrom(df, t, i - 1)

LastIndex(df, t) == LastIndexFrom(df, t, Len(df))

RECURSIVE TakeRows(_, _, _)
TakeRows(df, I, i) ==
    IF i > Len(df) THEN <<>>
    ELSE (IF i \in I THEN <<df[i]>> ELSE <<>>) \o TakeRows(df, I, i + 1)

(* df.groupby('ticker').tail(1): the last row of every ticker, in the order
   of the rows of df *)
GroupTail1(df) == TakeRows(df, {LastIndex(df, t) : t \in TickersOf(df)}, 1)

Latest(df) == GroupTail1(SortTickerDate(df))

(* mutant of Hit: the signal filter is applied before the last row is taken *)
HitOfSignalRows(df) == GroupTail1(SelectSeq(SortTickerDate(df), LAMBDA r : r.signal))

Hit(df) == SelectSeq(Latest(df), LAMBDA r : r.signal)

TwoDigits(n) == IF n < 10 THEN "0" \o ToString(n) ELSE ToString(n)

(* f"{x:.2f}" of a number of hundredths *)
Fmt2(h) ==
    IF h < 0 THEN "-" \o ToString((-h) \div 100) \o "." \o TwoDigits((-h) % 100)
    ELSE ToString(h \div 100) \o "." \o TwoDigits(h % 100)

(* the fraction num/den (den > 0) in hundredths, rounded half to even *)
RoundHundredths(num, den) ==
    LET q == (100 * num) \div den
        r == (100 * num) % den
    IN IF 2 * r > den \/ (2 * r = den /\ q % 2 = 1) THEN q + 1 ELSE q

FmtClose(c) == IF IsNull(c) THEN "nan" ELSE Fmt2(Val(c))

FmtSma(x) == IF IsNull(x) THEN "N/A" ELSE Fmt2(Val(x))

FmtKairi(k) ==
    IF IsNull(k) THEN "N/A"
    ELSE IF k[2] = 0 THEN (IF k[1] < 0 THEN "-inf%" ELSE "inf%")
    ELSE Fmt2(RoundHundredths(k[1], k[2])) \o "%"

(* pd.to_datetime(r['Date']).date().isoformat(); dates are days of one month *)
IsoFormat(d) == "2025-01-" \o TwoDigits(d)

HeaderLine(today) == [kind |-> "header", today |-> today]

NoneLine == [kind |-> "none"]

HitLine(r) ==
    [kind |-> "hit", ticker |-> r.ticker, date |-> IsoFormat(r.Date),
     close |-> FmtClose(r.close), sma |-> FmtSma(r.sma25), kairi |-> FmtKairi(r.kairi)]

(* the report as the sequence of its lines (they are joined by newlines) *)
format_alerts(df, today) ==
    LET hit == Hit(df)
    IN <<HeaderLine(today)>>
         \o (IF hit = <<>> THEN <<NoneLine>> ELSE [i \in 1..Len(hit) |-> HitLine(hit[i])])

-----------------------------------------------------------------------------
(* Inputs: the ticker file, the downloaded frame, the command line, the clock *)

A == <<"A">>

B == <<"B">>

Px(units) == units * 100

BaseClose == Num(Px(100))

TailCloses == {Num(Px(79)), Num(Px(95)), NaN}

Lines == {A, <<" ", "B", " ">>, <<" ", "#", "A">>, <<" ">>}

SeqsUpTo(S, n) == UNION {[1..k -> S] : k \in 0..n}

Files == SeqsUpTo(Lines, MaxLines)

CleanFiles == {<<A>>, <<A, B>>, <<B, A>>, <<A, A>>}

RowCounts == {0, Window - 1} \cup (Window..MaxRows)

IndexKinds(n) == IF n >= 2 THEN {"sorted", "swapped", "dup"} ELSE {"sorted"}

DateIndex(n, kind) ==
    [i \in 1..n |->
        CASE kind = "sorted" -> i
          [] kind = "swapped" -> (IF i = n THEN n - 1 ELSE IF i = n - 1 THEN n ELSE i)
          [] kind = "dup" -> (IF i = n THEN n - 1 ELSE i)]

Tails(k) == [1..k -> TailCloses]

Column(n, tail) ==
    [i \in 1..n |-> IF i > n - Len(tail) THEN tail[i - (n - Len(tail))] ELSE BaseClose]

NoData(n) == [i \in 1..n |-> NaN]

ColumnsA(n) == {Column(n, t) : t \in Tails(Min(n, TailLen))}

SignalColumn(n) == Column(n, <<Num(Px(79))>>)

ColumnsB(n) == {NoData(n)} \cup (IF n > 0 THEN {SignalColumn(n)} ELSE {})

FlatFrame(index, col) == [shape |-> "flat", index |-> index, flat |-> col, cols |-> <<>>]

GroupedFrame(index, cols) == [shape |-> "grouped", index |-> index, flat |-> <<>>, cols |-> cols]

FlatFrames ==
    UNION {{FlatFrame(DateIndex(n, k), c) : k \in IndexKinds(n), c \in ColumnsA(n)}
            : n \in RowCounts}

ColumnSets(n) ==
    {<<>>} \cup {(A :> ca) : ca \in ColumnsA(n)}
           \cup {(A :> ca) @@ (B :> cb) : ca \in ColumnsA(n), cb \in ColumnsB(n)}

GroupedFrames ==
    UNION {{GroupedFrame(DateIndex(n, k), cs) : k \in IndexKinds(n), cs \in ColumnSets(n)}
            : n \in RowCounts}

Frames == FlatFrames \cup GroupedFrames

SmallFrames ==
    {FlatFrame(<<>>, <<>>),
     GroupedFrame(DateIndex(MaxRows, "sorted"),
                  (A :> SignalColumn(MaxRows)) @@ (B :> SignalColumn(MaxRows)))}

ArgSets ==
    [slack_webhook : BOOLEAN, email_to : BOOLEAN, email_from : BOOLEAN, smtp_host : BOOLEAN]

NoArgs == [slack_webhook |-> FALSE, email_to |-> FALSE, email_from |-> FALSE, smtp_host |-> FALSE]

Clock == {"2025-01-28 15:10 JST"}

-----------------------------------------------------------------------------
(* main *)

EmailConfigured(a) == a.email_to /\ a.email_from /\ a.smtp_host

Init ==
    /\ \/ file \in Files /\ data \in SmallFrames /\ args \in ArgSets
       \/ file \in CleanFiles /\ data \in Frames /\ args = NoArgs
    /\ pc = "read_tickers"
    /\ tickers = <<>>
    /\ raw = <<>>
    /\ res = <<>>
    /\ text = <<>>
    /\ out = <<>>
    /\ err = <<>>
    /\ trace = <<>>
    /\ status = "running"

Inputs == <<args, file, data>>

ReadTickersEmpty ==
    /\ pc = "read_tickers"
    /\ read_tickers(file) = <<>>
    /\ tickers' = read_tickers(file)
    /\ err' = Append(err, "no tickers")
    /\ status' = "exit2"
    /\ pc' = "done"
    /\ trace' = Append(trace, "read_tickers")
    /\ UNCHANGED <<Inputs, raw, res, text, out>>

ReadTickers ==
    /\ pc = "read_tickers"
    /\ read_tickers(file) # <<>>
    /\ tickers' = read_tickers(file)
    /\ pc' = "fetch_prices"
    /\ trace' = Append(trace, "read_tickers")
    /\ UNCHANGED <<Inputs, raw, res, text, out, err, status>>

FetchPricesRaises ==
    /\ pc = "fetch_prices"
    /\ FetchRaises(tickers, data)
    /\ err' = Append(err, "Traceback: KeyError")
    /\ status' = "exit1"
    /\ pc' = "done"
    /\ trace' = Append(trace, "fetch_prices")
    /\ UNCHANGED <<Inputs, tickers, raw, res, text, out>>

FetchPrices ==
    /\ pc = "fetch_prices"
    /\ ~FetchRaises(tickers, data)
    /\ raw' = fetch_prices(tickers, data)
    /\ pc' = "compute_sma25_signals"
    /\ trace' = Append(trace, "fetch_prices")
    /\ UNCHANGED <<Inputs, tickers, res, text, out, err, status>>

ComputeRaisesValueError ==
    /\ pc = "compute_sma25_signals"
    /\ ComputeRaises(raw)
    /\ err' = Append(err, "Traceback: ValueError")
    /\ status' = "exit1"
    /\ pc' = "done"
    /\ trace' = Append(trace, "compute_sma25_signals")
    /\ UNCHANGED <<Inputs, tickers, raw, res, text, out>>

ComputeSignals ==
    /\ pc = "compute_sma25_signals"
    /\ ~ComputeRaises(raw)
    /\ res' \in compute_sma25_signals(raw)
    /\ pc' = "format_alerts"
    /\ trace' = Append(trace, "compute_sma25_signals")
    /\ UNCHANGED <<Inputs, tickers, raw, text, out, err, status>>

FormatAlerts ==
    /\ pc = "format_alerts"
    /\ \E today \in Clock : text' = format_alerts(res, today)
    /\ pc' = "print"
    /\ trace' = Append(trace, "format_alerts")
    /\ UNCHANGED <<Inputs, tickers, raw, res, out, err, status>>

PrintText ==
    /\ pc = "print"
    /\ out' = Append(out, "report")
    /\ pc' = "slack"
    /\ trace' = Append(trace, "print")
    /\ UNCHANGED <<Inputs, tickers, raw, res, text, err, status>>

SlackSkipped ==
    /\ pc = "slack"
    /\ ~args.slack_webhook
    /\ pc' = "email"
    /\ UNCHANGED <<Inputs, tickers, raw, res, text, out, err, trace, status>>

SlackSent ==
    /\ pc = "slack"
    /\ args.slack_webhook
    /\ out' = Append(out, "slack sent")
    /\ pc' = "email"
    /\ trace' = Append(trace, "send_slack")
    /\ UNCHANGED <<Inputs, tickers, raw, res, text, err, status>>

(* mutant of SlackFailed: the exception of send_slack is not caught *)
SlackFailedUncaught ==
    /\ pc = "slack"
    /\ args.slack_webhook
    /\ err' = Append(err, "Traceback: URLError")
    /\ status' = "exit1"
    /\ pc' = "done"
    /\ trace' = Append(trace, "send_slack")
    /\ UNCHANGED <<Inputs, tickers, raw, res, text, out>>

SlackFailed ==
    /\ pc = "slack"
    /\ args.slack_webhook
    /\ err' = Append(err, "slack error")
    /\ pc' = "email"
    /\ trace' = Append(trace, "send_slack")
    /\ UNCHANGED <<Inputs, tickers, raw, res, text, out, status>>

EmailSkipped ==
    /\ pc = "email"
    /\ ~EmailConfigured(args)
    /\ pc' = "done"
    /\ status' = "exit0"
    /\ UNCHANGED <<Inputs, tickers, raw, res, text, out, err, trace>>

EmailSent ==
    /\ pc = "email"
    /\ EmailConfigured(args)
    /\ out' = Append(out, "email sent")
    /\ pc' = "done"
    /\ status' = "exit0"
    /\ trace' = Append(trace, "send_email")
    /\ UNCHANGED <<Inputs, tickers, raw, res, text, err>>

EmailFailed ==
    /\ pc = "email"
    /\ EmailConfigured(args)
    /\ err' = Append(err, "email error")
    /\ pc' = "done"
    /\ status' = "exit0"
    /\ trace' = Append(trace, "send_email")
    /\ UNCHANGED <<Inputs, tickers, raw, res, text, out>>

Next ==
    \/ ReadTickersEmpty
    \/ ReadTickers
    \/ FetchPricesRaises
    \/ FetchPrices
    \/ ComputeRaisesValueError
    \/ ComputeSignals
    \/ FormatAlerts
    \/ PrintText
    \/ SlackSkipped
    \/ SlackSent
    \/ SlackFailed
    \/ EmailSkipped
    \/ EmailSent
    \/ EmailFailed

Spec == Init /\ [][Next]_vars

-----------------------------------------------------------------------------
(* Properties *)

HasRun(step) == \E i \in 1..Len(trace) : trace[i] = step

Crashed == status = "exit1"

(* res holds the frame returned by compute_sma25_signals *)
ResReady == HasRun("compute_sma25_signals") /\ ~Crashed

(* text holds the report returned by format_alerts *)
TextReady == HasRun("format_alerts")

(* C1: every record of the calculator has signal = true exactly when its
   trailing average is defined and its close is below 0.8 times the average
   (5 * close < 4 * average); so no signalling record lacks an average and a
   close 20% or less below the average does not signal *)
C1_SignalIffBelowThreshold ==
    ResReady =>
        \A i \in 1..Len(res) :
            res[i].signal <=>
                (Defined(res[i].sma25) /\ 5 * res[i].close[1] < 4 * res[i].sma25[1])

(* C1 witness: one frame holds a signalling record and a record whose close is
   below its average by less than 20% and does not signal *)
C1_Witness ==
    /\ ResReady
    /\ \E i \in 1..Len(res) : res[i].signal
    /\ \E i \in 1..Len(res) :
          /\ Defined(res[i].sma25)
          /\ res[i].close[1] < res[i].sma25[1]
          /\ ~res[i].signal

AllPresent(g, lo, hi) == \A j \in lo..hi : Defined(g[j].close)

RECURSIVE SumCloses(_, _, _)
SumCloses(g, lo, hi) == IF lo > hi THEN 0 ELSE g[lo].close[1] + SumCloses(g, lo + 1, hi)

(* C2: in every instrument's series of the calculator's result, which is in
   date order, the record at position i (counted from 1) has no average, no
   deviation and no signal when i < 25, and when i >= 25 its average is the
   mean of the 25 closes at positions i-24..i (25 * average = their sum; a
   window holding a missing close has no mean) *)
C2_AverageOfExactly25 ==
    ResReady =>
        \A t \in TickersOf(res) :
            LET g == SelectSeq(res, LAMBDA r : r.ticker = t)
            IN /\ \A i \in 1..(Len(g) - 1) : g[i].Date <= g[i + 1].Date
               /\ \A i \in 1..Len(g) :
                    IF i < 25
                    THEN ~Defined(g[i].sma25) /\ ~Defined(g[i].kairi) /\ ~g[i].signal
                    ELSE IF AllPresent(g, i - 24, i)
                    THEN Defined(g[i].sma25)
                           /\ 25 * g[i].sma25[1] = SumCloses(g, i - 24, i)
                    ELSE ~Defined(g[i].sma25)

(* C2 witness: a series of at least 25 records whose 25th record has an
   average while its 24th has none, the window holding two different closes *)
C2_Witness ==
    /\ ResReady
    /\ \E t \in TickersOf(res) :
          LET g == SelectSeq(res, LAMBDA r : r.ticker = t)
          IN /\ Len(g) >= 25
             /\ ~Defined(g[24].sma25)
             /\ Defined(g[25].sma25)
             /\ g[25].close # g[1].close

HitLines == SelectSeq(text, LAMBDA l : l.kind = "hit")

LinesFor(t) == SelectSeq(HitLines, LAMBDA l : l.ticker = t)

SeriesOf(t) == SelectSeq(res, LAMBDA r : r.ticker = t)

Qualifies(t) == Last(SeriesOf(t)).signal

(* C3: the report is the header followed by exactly one line for every
   instrument whose last record (the one of the latest date) signals, that line
   carrying the last record's date and values, and by no other instrument's
   line; when no instrument qualifies the body is the single "none" line *)
C3_OneLinePerLatestSignal ==
    TextReady =>
        /\ text[1].kind = "header"
        /\ \A t \in TickersOf(res) :
              LET g == SeriesOf(t)
              IN /\ \A i \in 1..Len(g) : g[i].Date <= Last(g).Date
                 /\ LinesFor(t) = IF Last(g).signal
                                  THEN <<[kind |-> "hit", ticker |-> t,
                                          date |-> IsoFormat(Last(g).Date),
                                          close |-> FmtClose(Last(g).close),
                                          sma |-> FmtSma(Last(g).sma25),
                                          kairi |-> FmtKairi(Last(g).kairi)]>>
                                  ELSE <<>>
        /\ \A i \in 1..Len(HitLines) : HitLines[i].ticker \in TickersOf(res)
        /\ IF \E t \in TickersOf(res) : Qualifies(t)
           THEN Tail(text) = HitLines
           ELSE Tail(text) = <<[kind |-> "none"]>>

(* C3 witness: a report with a line for a qualifying instrument and none for
   an instrument that signalled on an earlier date but not on its last *)
C3_Witness ==
    /\ TextReady
    /\ \E t \in TickersOf(res) : Qualifies(t) /\ Len(LinesFor(t)) = 1
    /\ \E t \in TickersOf(res) :
          /\ ~Qualifies(t)
          /\ \E i \in 1..Len(SeriesOf(t)) : SeriesOf(t)[i].signal
          /\ LinesFor(t) = <<>>

(* the report bodies the pipeline can produce for a ticker list and a frame *)
Bodies(ts, d) ==
    IF FetchRaises(ts, d) THEN {}
    ELSE UNION {IF ComputeRaises(df) THEN {}
                ELSE {Tail(format_alerts(r, "")) : r \in compute_sma25_signals(df)}
                  : df \in {fetch_prices(ts, d)}}

(* C8: the lines of the report are in ascending order of instrument
   identifier, whatever the order of the ticker list and of the frame's rows,
   and the body format_alerts has just returned is one the pipeline produces
   for the ticker list reversed (text and the inputs never change afterwards) *)
C8_LinesAscendingByTicker ==
    TextReady =>
        /\ \A i \in 1..(Len(HitLines) - 1) :
              StrLess(HitLines[i].ticker, HitLines[i + 1].ticker)
        /\ pc = "print" => Tail(text) \in Bodies(Reverse(tickers), data)

(* C8 witness: a report of two lines for a ticker list given in descending
   order and a frame whose rows are not in date order *)
C8_Witness ==
    /\ TextReady
    /\ Len(HitLines) = 2
    /\ tickers = <<B, A>>
    /\ \E i \in 1..(Len(data.index) - 1) : data.index[i] > data.index[i + 1]

Index(step) == CHOOSE i \in 1..Len(trace) : trace[i] = step

InSeq(x, s) == \E i \in 1..Len(s) : s[i] = x

(* C9: a delivery is attempted only after the report was formatted and
   printed; a run that printed its report ends with the success status, with
   the webhook attempted when configured and the email attempted when
   configured, also after a webhook failure; every failure is reported *)
C9_DeliveryIndependentNonFatal ==
    /\ \A ch \in {"send_slack", "send_email"} :
          HasRun(ch) => /\ HasRun("print") /\ Index("print") < Index(ch)
                        /\ HasRun("format_alerts") /\ InSeq("report", out)
    /\ HasRun("print") => ~Crashed
    /\ (pc = "done" /\ HasRun("print")) =>
          /\ status = "exit0"
          /\ args.slack_webhook <=> HasRun("send_slack")
          /\ EmailConfigured(args) <=> HasRun("send_email")
          /\ HasRun("send_slack") => (InSeq("slack sent", out) \/ InSeq("slack error", err))
          /\ HasRun("send_email") => (InSeq("email sent", out) \/ InSeq("email error", err))
    /\ (pc = "email" /\ args.slack_webhook) => HasRun("send_slack")

(* C9 witness: a finished run in which both the webhook and the email failed *)
C9_Witness ==
    /\ pc = "done"
    /\ status = "exit0"
    /\ InSeq("slack error", err)
    /\ InSeq("email error", err)
    /\ Index("send_slack") < Index("send_email")

Ignored(line) ==
    \/ \A j \in 1..Len(line) : line[j] = " "
    \/ \E k \in 1..Len(line) : line[k] = "#" /\ \A j \in 1..(k - 1) : line[j] = " "

AllIgnored(f) == \A i \in 1..Len(f) : Ignored(f[i])

(* C10: once the ticker file is read, a file of only blank and '#' lines has
   ended the run with status 2 and nothing but the read has run (no fetch,
   computation, formatting, printing or delivery); any other file yields a
   non-empty list and the run is not ended by this check *)
C10_EmptyListAborts ==
    pc # "read_tickers" =>
        IF AllIgnored(file)
        THEN /\ pc = "done" /\ status = "exit2"
             /\ trace = <<"read_tickers">>
             /\ raw = <<>> /\ res = <<>> /\ text = <<>> /\ out = <<>>
        ELSE /\ tickers # <<>>
             /\ status # "exit2"
             /\ HasRun("fetch_prices") \/ pc = "fetch_prices"

(* C10 witness: a run aborted on a file that holds a comment and a blank line *)
C10_Witness ==
    /\ pc = "done"
    /\ status = "exit2"
    /\ \E i \in 1..Len(file) : InSeq("#", file[i])
    /\ \E i \in 1..Len(file) : file[i] = <<" ">>

HasData(col) == \E i \in 1..Len(col) : Defined(col[i])

(* the frame holds data for A and none for B *)
DataOnlyForA ==
    \/ /\ data.shape = "grouped"
       /\ A \in DOMAIN data.cols /\ HasData(data.cols[A])
       /\ B \in DOMAIN data.cols => ~HasData(data.cols[B])
    \/ data.shape = "flat" /\ HasData(data.flat)

(* C4: with the ticker list [A, B] and a frame holding data only for A, the
   run does not end in an error, no row is attributed to B by the
   normalisation, the calculator has no record of B and the report no line
   of B *)
C4_MissingInstrumentIsEmptySeries ==
    (tickers = <<A, B>> /\ DataOnlyForA /\ HasRun("fetch_prices")) =>
        /\ ~Crashed
        /\ \A i \in 1..Len(raw) : raw[i].ticker # B
        /\ \A i \in 1..Len(res) : res[i].ticker # B
        /\ LinesFor(B) = <<>>

(* C5: compute_sma25_signals called on a frame of no rows does not raise and
   returns no record, and the report is then the header and the "none" line *)
C5_EmptyInputYieldsEmptyResult ==
    (raw = <<>> /\ HasRun("compute_sma25_signals")) =>
        /\ ~Crashed
        /\ res = <<>>
        /\ TextReady => Tail(text) = <<[kind |-> "none"]>>

(* C6: in every instrument's series that the calculator works on, the dates
   are strictly increasing, so no date occurs twice *)
C6_DatesStrictlyIncreasing ==
    ResReady =>
        \A t \in TickersOf(res) :
            \A i \in 1..(Len(SeriesOf(t)) - 1) : SeriesOf(t)[i].Date < SeriesOf(t)[i + 1].Date

PresentUpTo(g, i) == Cardinality({j \in 1..i : Defined(g[j].close)})

(* C7: no record of the calculator has a missing close, and a record with at
   least 25 present closes up to its date has a trailing average *)
C7_MissingClosesDropped ==
    ResReady =>
        /\ \A i \in 1..Len(res) : Defined(res[i].close)
        /\ \A t \in TickersOf(res) :
              \A i \in 1..Len(SeriesOf(t)) :
                  (Defined(SeriesOf(t)[i].close) /\ PresentUpTo(SeriesOf(t), i) >= 25)
                      => Defined(SeriesOf(t)[i].sma25)

=============================================================================
